---- MODULE Spec2Model ----
(***************************************************************************)
(* A model of jab's Harness (src/jab/harness.py): the registry filled by   *)
(* provide, the dependency graph built from constructor annotations, the   *)
(* topological sort and instantiation of _build_env, and the start / run / *)
(* stop lifecycle driven by run() on one asyncio event loop; and of the     *)
(* method matcher func_satisfies of src/jab/search.py, a pure function.    *)
(***************************************************************************)
EXTENDS Integers, Sequences, FiniteSets, TLC

VARIABLES
    provided,     \* Harness._provided: insertion-ordered dict, a sequence of [name, cls]
    dep_graph,    \* Harness._dep_graph: name -> (parameter -> resolved name)
    env,          \* Harness._env: name -> instance
    exec_order,   \* Harness._exec_order: sequence of names
    nprovided,    \* number of arguments handed to provide so far
    ncalls,       \* number of provide calls so far
    last,         \* record of the last provide call: its arguments, outcome, writes
    pc,           \* position of run(): idle, start_wait, run_wait, stopping, stop_wait, done
    tasks,        \* the event loop's tasks: <<phase, name>> -> [st, yields]
    stopIdx,      \* index into _exec_order of the next component _on_stop visits
    result,       \* how run() ended: none, returned, or the error it raised
    log,          \* observations of the current run() invocation
    match         \* one call of a method matcher: the two signatures and its outcome

vars == <<provided, dep_graph, env, exec_order, nprovided, ncalls, last,
          pc, tasks, stopIdx, result, log, match>>

harnessVars == <<provided, dep_graph, env, exec_order, nprovided, ncalls, last>>

-----------------------------------------------------------------------------
(* Bounds of the model *)

\* total number of arguments handed to provide over a behaviour
MaxDefs == 3

\* number of times a hook may suspend (await) before it finishes or raises
MaxYields == 1

-----------------------------------------------------------------------------
(* The universe of arguments handed to provide *)

\* Python's None, as the result of a search that found nothing
None == "None"

\* the sentinel of a hook or member that does not exist
NoHook == "none"

\* Python's sorted() on the component names (toposort_flatten sorts each batch)
NameOrder == <<"A", "B", "C", "D", "X", "Y", "Z">>

Rank(n) == CHOOSE i \in DOMAIN NameOrder : NameOrder[i] = n

\* a method member with its __annotations__
Method(sig) == [kind |-> "method", sig |-> sig]

\* signature of P.get / an implementation of it: {"return": int}
SigGet == [return |-> "int"]

\* a same-named method whose annotations differ: {"return": str}
SigOther == [return |-> "str"]

\* the value dict.get returns for a missing key
NoneMember == [kind |-> "none"]

\* a class-level value or annotation naming a type
Value(ty) == [kind |-> "value", ty |-> ty]

NoMembers == [a \in {} |-> NoneMember]

\* Protocol definitions: the attributes _get_protocol_attrs reports, the members
\* getattr finds, and the class-level __annotations__
Protocols ==
    [P |-> [attrs |-> {"get"}, members |-> [get |-> Method(SigGet)], annots |-> NoMembers]]

Concrete(key, name) == [key |-> key, kind |-> "concrete", ty |-> [module |-> "m", name |-> name]]

Proto(key, p) == [key |-> key, kind |-> "proto", ty |-> p]

\* What can be handed to provide.  isclass: whether it is a class definition;
\* name/module: __name__/__module__; params: the constructor's annotations other
\* than "return", in order; ret: whether "return" is annotated; ctorFails: whether
\* the constructor raises; members/annots: what isimplementation inspects;
\* start/run/stop: "none", "async" (coroutine function) or "sync".
Class(isclass, name, params, ret, ctorFails, members, start, run, stop) ==
    [isclass |-> isclass, name |-> name, module |-> "m", params |-> params, ret |-> ret,
     ctorFails |-> ctorFails, members |-> members, annots |-> NoMembers,
     start |-> start, run |-> run, stop |-> stop]

Catalogue ==
    [cA   |-> Class(TRUE, "A", <<>>, TRUE, FALSE, NoMembers, "async", NoHook, "async"),
     cA2  |-> Class(TRUE, "A", <<Concrete("b", "B")>>, FALSE, FALSE, NoMembers, NoHook, NoHook, NoHook),
     cB   |-> Class(TRUE, "B", <<Concrete("a", "A")>>, TRUE, FALSE, NoMembers, "async", "async", "sync"),
     cB2  |-> Class(TRUE, "B", <<Concrete("a", "A")>>, TRUE, FALSE, NoMembers, NoHook, NoHook, NoHook),
     cC   |-> Class(TRUE, "C", <<Concrete("b", "B")>>, FALSE, FALSE, NoMembers, NoHook, "async", "async"),
     cD   |-> Class(TRUE, "D", <<>>, TRUE, TRUE, NoMembers, NoHook, NoHook, NoHook),
     cX   |-> Class(TRUE, "X", <<Proto("p", "P")>>, FALSE, FALSE,
                    [get |-> Method(SigOther)], NoHook, NoHook, NoHook),
     cX2  |-> Class(TRUE, "X", <<Proto("p", "P")>>, FALSE, FALSE,
                    [get |-> Method(SigGet)], NoHook, NoHook, NoHook),
     cY   |-> Class(TRUE, "Y", <<>>, TRUE, FALSE, [get |-> Method(SigGet)], NoHook, "sync", NoHook),
     cZ   |-> Class(TRUE, "Z", <<>>, TRUE, FALSE, [get |-> Method(SigGet)], "sync", NoHook, "sync"),
     cE   |-> Class(TRUE, "E", <<>>, FALSE, FALSE, NoMembers, NoHook, NoHook, NoHook),
     obj  |-> Class(FALSE, "obj", <<>>, FALSE, FALSE, NoMembers, NoHook, NoHook, NoHook)]

ArgIds == DOMAIN Catalogue

\* the argument tuples of one provide call of n arguments
ArgTuples(n) == UNION {[1..k -> ArgIds] : k \in 1..n}

-----------------------------------------------------------------------------
(* Helpers on the ordered dict _provided *)

Names(prov) == {prov[i].name : i \in DOMAIN prov}

IndexOf(prov, name) == CHOOSE i \in DOMAIN prov : prov[i].name = name

ClsOf(prov, name) == Catalogue[prov[IndexOf(prov, name)].cls]

\* self._provided[arg.__name__] = arg: a new key is appended, an existing key keeps
\* its position and takes the new value
DictSet(prov, name, cls) ==
    IF name \in Names(prov)
    THEN [prov EXCEPT ![IndexOf(prov, name)].cls = cls]
    ELSE Append(prov, [name |-> name, cls |-> cls])

-----------------------------------------------------------------------------
(* isimplementation, _search_protocol, _search_concrete *)

HasAnnotations(c) == DOMAIN c.annots # {}

DictGet(d, k) == IF k \in DOMAIN d THEN d[k] ELSE NoneMember

\* one attribute of the protocol against the class (the body of the for loop)
AttrMatches(c, proto, attr) ==
    LET both == attr \in DOMAIN proto.members /\ attr \in DOMAIN c.members
        useAnn == HasAnnotations(proto)
        proto_concrete == IF both THEN proto.members[attr]
                          ELSE IF useAnn THEN DictGet(proto.annots, attr) ELSE NoneMember
        cls_concrete == IF both THEN c.members[attr]
                        ELSE IF useAnn THEN DictGet(c.annots, attr) ELSE NoneMember
    IN  IF cls_concrete = NoneMember THEN FALSE
        ELSE IF proto_concrete.kind = "method"
             THEN cls_concrete.kind = "method" /\ proto_concrete.sig = cls_concrete.sig
             ELSE cls_concrete = proto_concrete

isimplementation(c, proto) ==
    IF HasAnnotations(proto) /\ ~HasAnnotations(c) THEN FALSE
    ELSE \A attr \in proto.attrs : AttrMatches(c, proto, attr)

\* a mutation of FirstMatch: the last matching entry is returned, not the first
LastMatch(prov, m) ==
    IF m = {} THEN None
    ELSE prov[CHOOSE i \in m : \A j \in m : i >= j].name

\* "for name, obj in self._provided.items(): if <test>: return name; return None",
\* given the positions of _provided whose class passes the test
FirstMatch(prov, m) ==
    IF m = {} THEN None
    ELSE prov[CHOOSE i \in m : \A j \in m : i <= j].name

_search_protocol(prov, dep) ==
    FirstMatch(prov, {i \in DOMAIN prov : isimplementation(Catalogue[prov[i].cls], Protocols[dep])})

\* a mutation of _search_concrete: the first entry is returned when none matches
search_concrete_fallback(prov, dep) ==
    LET m == {i \in DOMAIN prov : /\ Catalogue[prov[i].cls].module = dep.module
                                  /\ Catalogue[prov[i].cls].name = dep.name}
    IN  FirstMatch(prov, IF m = {} THEN DOMAIN prov ELSE m)

_search_concrete(prov, dep) ==
    FirstMatch(prov, {i \in DOMAIN prov : /\ Catalogue[prov[i].cls].module = dep.module
                                          /\ Catalogue[prov[i].cls].name = dep.name})

-----------------------------------------------------------------------------
(* _check_provide *)

_check_provide(arg) ==
    IF ~arg.isclass THEN "NoConstructor"
    ELSE IF Len(arg.params) = 0 /\ ~arg.ret THEN "NoAnnotation"
    ELSE "ok"

\* the loop of provide: each argument is checked, then stored, in turn; the first
\* failing check raises, and the arguments stored before it stay stored
RECURSIVE RegisterArgs(_, _, _)
RegisterArgs(prov, args, i) ==
    IF i > Len(args) THEN [prov |-> prov, err |-> "ok"]
    ELSE LET arg == Catalogue[args[i]]
             chk == _check_provide(arg)
         IN  IF chk # "ok" THEN [prov |-> prov, err |-> chk]
             ELSE RegisterArgs(DictSet(prov, arg.name, args[i]), args, i + 1)

-----------------------------------------------------------------------------
(* _build_graph *)

ParamKeys(c) == {c.params[i].key : i \in DOMAIN c.params}

ParamOf(c, key) == c.params[CHOOSE i \in DOMAIN c.params : c.params[i].key = key]

\* the match of one constructor parameter (None when nothing matches)
Resolve(prov, param) ==
    IF param.kind = "proto" THEN _search_protocol(prov, param.ty)
    ELSE _search_concrete(prov, param.ty)

\* whether every parameter of the class finds a match
Resolvable(prov, c) == \A i \in DOMAIN c.params : Resolve(prov, c.params[i]) # None

ConcreteOf(prov, c) == [key \in ParamKeys(c) |-> Resolve(prov, ParamOf(c, key))]

\* the loop over self._provided.items(): an entry whose parameters all resolve is
\* written to _dep_graph; the first parameter without a match raises
\* MissingDependency, the entries written before it stay written
RECURSIVE GraphLoop(_, _, _, _)
GraphLoop(prov, graph, i, written) ==
    IF i > Len(prov) THEN [graph |-> graph, err |-> "ok", written |-> written]
    ELSE LET name == prov[i].name
             c == Catalogue[prov[i].cls]
         IN  IF ~Resolvable(prov, c)
             THEN [graph |-> graph, err |-> "MissingDependency", written |-> written]
             ELSE GraphLoop(prov,
                            [n \in DOMAIN graph \cup {name} |->
                                IF n = name THEN ConcreteOf(prov, c) ELSE graph[n]],
                            i + 1, written \cup {name})

-----------------------------------------------------------------------------
(* toposort.toposort_flatten, as _build_env calls it *)

\* sorted(batch)
RECURSIVE SortedSeq(_)
SortedSeq(S) ==
    IF S = {} THEN <<>>
    ELSE LET m == CHOOSE x \in S : \A y \in S : Rank(x) <= Rank(y)
         IN  <<m>> \o SortedSeq(S \ {m})

\* toposort drops the self-dependencies ("v.discard(k)") and adds the items that
\* occur only as dependencies, with no dependencies of their own
Prepared(deps) ==
    LET extra == (UNION {deps[k] : k \in DOMAIN deps}) \ DOMAIN deps
    IN  [k \in DOMAIN deps \cup extra |-> IF k \in DOMAIN deps THEN deps[k] \ {k} ELSE {}]

\* a mutation of Batches: every item is emitted at once, dependencies or not
BatchesNoWait(data, acc) == [order |-> acc \o SortedSeq(DOMAIN data), circular |-> FALSE]

\* the batches: the items with no dependency left are emitted, sorted, and removed;
\* items left when none is free make a CircularDependencyError
RECURSIVE Batches(_, _)
Batches(data, acc) ==
    LET ordered == {k \in DOMAIN data : data[k] = {}}
    IN  IF ordered = {}
        THEN [order |-> acc, circular |-> DOMAIN data # {}]
        ELSE Batches([k \in DOMAIN data \ ordered |-> data[k] \ ordered],
                     acc \o SortedSeq(ordered))

toposort_flatten(deps) == Batches(Prepared(deps), <<>>)

-----------------------------------------------------------------------------
(* _build_env *)

\* deps[k] = {i for _, i in v.items()}
DepSets(graph) == [k \in DOMAIN graph |-> {graph[k][key] : key \in DOMAIN graph[k]}]

\* an instance: the class it was constructed from, the provide call that built it,
\* and the instances injected into its constructor
Instance(cls, build, inj) == [cls |-> cls, build |-> build, inj |-> inj]

\* the identity of an instance
Ident(inst) == <<inst.cls, inst.build>>

\* a mutation: an incremental build, which keeps the instance _env already holds
\* under a name instead of constructing the component again
RECURSIVE EnvLoopKeeps(_, _, _, _, _, _)
EnvLoopKeeps(prov, graph, e, order, i, build) ==
    IF i > Len(order) THEN [env |-> e, err |-> "ok", built |-> order]
    ELSE LET x == order[i]
             reqs == graph[x]
             c == ClsOf(prov, x)
         IN  IF \E key \in DOMAIN reqs : reqs[key] \notin DOMAIN e
             THEN [env |-> e, err |-> "KeyError", built |-> SubSeq(order, 1, i - 1)]
             ELSE IF x \in DOMAIN e
             THEN EnvLoopKeeps(prov, graph, e, order, i + 1, build)
             ELSE IF c.ctorFails
             THEN [env |-> e, err |-> "ConstructorError", built |-> SubSeq(order, 1, i - 1)]
             ELSE LET inst == Instance(prov[IndexOf(prov, x)].cls, build,
                                       [key \in DOMAIN reqs |-> Ident(e[reqs[key]])])
                  IN  EnvLoopKeeps(prov, graph,
                                   [n \in DOMAIN e \cup {x} |-> IF n = x THEN inst ELSE e[n]],
                                   order, i + 1, build)

\* the loop over execution_order: the dependencies are read from _env (KeyError
\* when one is not there), the constructor is called (it may raise), the instance
\* is stored; what was stored before a failure stays stored
RECURSIVE EnvLoop(_, _, _, _, _, _)
EnvLoop(prov, graph, e, order, i, build) ==
    IF i > Len(order) THEN [env |-> e, err |-> "ok", built |-> order]
    ELSE LET x == order[i]
             reqs == graph[x]
             c == ClsOf(prov, x)
         IN  IF \E key \in DOMAIN reqs : reqs[key] \notin DOMAIN e
             THEN [env |-> e, err |-> "KeyError", built |-> SubSeq(order, 1, i - 1)]
             ELSE IF c.ctorFails
             THEN [env |-> e, err |-> "ConstructorError", built |-> SubSeq(order, 1, i - 1)]
             ELSE LET inst == Instance(prov[IndexOf(prov, x)].cls, build,
                                       [key \in DOMAIN reqs |-> Ident(e[reqs[key]])])
                  IN  EnvLoop(prov, graph,
                              [n \in DOMAIN e \cup {x} |-> IF n = x THEN inst ELSE e[n]],
                              order, i + 1, build)

\* a mutation: the build starts by clearing _exec_order and _env, so a cycle found
\* by toposort_flatten leaves them empty
build_env_from_scratch(prov, graph, e, order, build) ==
    LET ts == toposort_flatten(DepSets(graph))
        cleared == [n \in {} |-> e[n]]
    IN  IF ts.circular
        THEN [env |-> cleared, exec_order |-> <<>>, err |-> "CircularDependency",
              built |-> <<>>]
        ELSE LET r == EnvLoop(prov, graph, cleared, ts.order, 1, build)
             IN  [env |-> r.env, exec_order |-> ts.order, err |-> r.err, built |-> r.built]

\* _exec_order is assigned only when toposort_flatten returned
_build_env(prov, graph, e, order, build) ==
    LET ts == toposort_flatten(DepSets(graph))
    IN  IF ts.circular
        THEN [env |-> e, exec_order |-> order, err |-> "CircularDependency", built |-> <<>>]
        ELSE LET r == EnvLoop(prov, graph, e, ts.order, 1, build)
             IN  [env |-> r.env, exec_order |-> ts.order, err |-> r.err, built |-> r.built]

_build_graph(prov, graph, e, order, build) ==
    LET g == GraphLoop(prov, graph, 1, {})
    IN  IF g.err # "ok"
        THEN [graph |-> g.graph, env |-> e, exec_order |-> order, err |-> g.err,
              written |-> g.written, built |-> <<>>]
        ELSE LET b == _build_env(prov, g.graph, e, order, build)
             IN  [graph |-> g.graph, env |-> b.env, exec_order |-> b.exec_order,
                  err |-> b.err, written |-> g.written, built |-> b.built]

-----------------------------------------------------------------------------
(* provide *)

EmptyMap == [n \in {} |-> NoneMember]

NoCall == [args |-> <<>>, err |-> "none", written |-> {}, built |-> <<>>]

provide(args) ==
    LET reg == RegisterArgs(provided, args, 1)
    IN  /\ pc = "idle"
        /\ nprovided + Len(args) <= MaxDefs
        /\ nprovided' = nprovided + Len(args)
        /\ ncalls' = ncalls + 1
        /\ provided' = reg.prov
        /\ IF reg.err # "ok"
           THEN /\ last' = [args |-> args, err |-> reg.err, written |-> {}, built |-> <<>>]
                /\ UNCHANGED <<dep_graph, env, exec_order>>
           ELSE LET r == _build_graph(reg.prov, dep_graph, env, exec_order, ncalls + 1)
                IN  /\ dep_graph' = r.graph
                    /\ env' = r.env
                    /\ exec_order' = r.exec_order
                    /\ last' = [args |-> args, err |-> r.err, written |-> r.written,
                                built |-> r.built]
        /\ UNCHANGED <<pc, tasks, stopIdx, result, log, match>>

Provide ==
    /\ pc = "idle"
    /\ nprovided < MaxDefs
    /\ \E args \in ArgTuples(MaxDefs - nprovided) : provide(args)


-----------------------------------------------------------------------------
(* The lifecycle: run(), _on_start, _run, _on_stop on one event loop *)

NoTasks == [t \in {} |-> NoneMember]

\* what has been observed of the current run() invocation: the hooks invoked, how
\* often _on_stop was entered, how each wait ended, and how the stop hook that
\* was called last ended
NoLog == [starts |-> {}, runs |-> {}, stops |-> <<>>, stopEntered |-> 0,
          startEnd |-> "none", runEnd |-> "none", lastStop |-> "none"]

\* the attribute self._env[x].<phase> of the instance stored under x
Hook(x, phase) == Catalogue[env[x].cls][phase]

\* a mutation: the AttributeError of a missing hook is not caught by the scan
ScanStrict(phase) ==
    LET bad == {i \in DOMAIN exec_order :
                   \/ exec_order[i] \notin DOMAIN env
                   \/ Hook(exec_order[i], phase) # "async"}
        stop == IF bad = {} THEN Len(exec_order) + 1
                ELSE CHOOSE i \in bad : \A j \in bad : i <= j
        err == IF bad = {} THEN "ok"
               ELSE IF exec_order[stop] \notin DOMAIN env THEN "KeyError"
               ELSE IF Hook(exec_order[stop], phase) = NoHook THEN "AttributeError"
               ELSE "InvalidLifecycleMethod"
    IN  [err |-> err, awaits |-> {exec_order[i] : i \in 1..(stop - 1)}]

\* a mutation: a hook that is no coroutine function is passed over like a missing
\* hook instead of raising InvalidLifecycleMethod
ScanSkipsSync(phase) ==
    LET bad == {i \in DOMAIN exec_order : exec_order[i] \notin DOMAIN env}
        stop == IF bad = {} THEN Len(exec_order) + 1
                ELSE CHOOSE i \in bad : \A j \in bad : i <= j
    IN  [err |-> IF bad = {} THEN "ok" ELSE "KeyError",
         awaits |-> {exec_order[i] : i \in {j \in 1..(stop - 1) :
                                             Hook(exec_order[j], phase) = "async"}}]

\* The scanning loop of _on_start / _run over _exec_order: self._env[x] raises
\* KeyError when x has no instance, a hook that is no coroutine function raises
\* InvalidLifecycleMethod (which "except AttributeError" does not catch), a missing
\* hook is skipped, a coroutine function is called and its coroutine collected.
Scan(phase) ==
    LET bad == {i \in DOMAIN exec_order :
                   \/ exec_order[i] \notin DOMAIN env
                   \/ Hook(exec_order[i], phase) = "sync"}
        stop == IF bad = {} THEN Len(exec_order) + 1
                ELSE CHOOSE i \in bad : \A j \in bad : i <= j
        err == IF bad = {} THEN "ok"
               ELSE IF exec_order[stop] \notin DOMAIN env THEN "KeyError"
               ELSE "InvalidLifecycleMethod"
    IN  [err |-> err,
         awaits |-> {exec_order[i] : i \in {j \in 1..(stop - 1) :
                                             Hook(exec_order[j], phase) = "async"}}]

\* run_until_complete and gather wrap a coroutine in a task of the loop
NewTask == [st |-> "pending", yields |-> 0]

AddTasks(phase, names) ==
    [t \in DOMAIN tasks \cup {<<phase, n>> : n \in names} |->
        IF t \in DOMAIN tasks THEN tasks[t] ELSE NewTask]

Pending == {t \in DOMAIN tasks : tasks[t].st = "pending"}

\* the tasks still on the loop: a finished task is dropped once nothing waits on it
Unfinished == [t \in Pending |-> tasks[t]]

PhaseTasks(phase) == {t \in DOMAIN tasks : t[1] = phase}

\* whether the loop is running (inside run_until_complete)
LoopRunning == pc \in {"start_wait", "run_wait", "stop_wait"}

\* run() is called: _on_start scans the start hooks and starts waiting on them
run_call ==
    /\ pc = "idle"
    /\ LET s == Scan("start")
       IN  /\ log' = [NoLog EXCEPT !.starts = s.awaits]
           /\ IF s.err # "ok"
              THEN /\ pc' = "done"
                   /\ result' = s.err
                   /\ tasks' = NoTasks
              ELSE /\ pc' = "start_wait"
                   /\ result' = "none"
                   /\ tasks' = [t \in {<<"start", n>> : n \in s.awaits} |-> NewTask]
    /\ stopIdx' = 0
    /\ UNCHANGED <<harnessVars, match>>

\* the loop resumes a start or run task: the hook finishes, raises, or suspends again
task_step(t) ==
    /\ LoopRunning
    /\ t \in Pending
    /\ t[1] \in {"start", "run"}
    /\ \/ \E st \in {"done", "failed"} :
             tasks' = IF pc = "stop_wait"
                      THEN [u \in DOMAIN tasks \ {t} |-> tasks[u]]
                      ELSE [tasks EXCEPT ![t].st = st]
       \/ /\ tasks[t].yields < MaxYields
          /\ tasks' = [tasks EXCEPT ![t].yields = @ + 1]
    /\ UNCHANGED <<pc, stopIdx, result, log>>
    /\ UNCHANGED <<harnessVars, match>>

\* _on_stop is entered: it walks _exec_order from its last element.  The tasks of
\* the wait that just ended stay on the loop unless they have finished.
EnterStop ==
    /\ pc' = "stopping"
    /\ stopIdx' = Len(exec_order)
    /\ tasks' = Unfinished

\* how a wait on gather can end: "ok" when every task of the phase finished,
\* "error" when a task raised (gather raises the first exception, "except Exception"
\* prints it), "interrupt" on KeyboardInterrupt ("goodbye")
WaitEnds(phase, how) ==
    CASE how = "ok" -> \A t \in PhaseTasks(phase) : tasks[t].st = "done"
      [] how = "error" -> \E t \in PhaseTasks(phase) : tasks[t].st = "failed"
      [] OTHER -> TRUE

\* a mutation: the exception handler of _on_start falls through to "return False"
on_start_returns_false(how) == how = "interrupt"

\* the value _on_start returns: True from both handlers, False after a clean wait
on_start_returns(how) == how # "ok"

\* The wait of _on_start ends and run() goes on: "if not interrupt: self._run()",
\* whose scan of the run hooks may raise, then "self._on_stop()"
start_wait_end(how) ==
    /\ pc = "start_wait"
    /\ WaitEnds("start", how)
    /\ IF on_start_returns(how)
       THEN /\ log' = [log EXCEPT !.startEnd = how, !.stopEntered = @ + 1]
            /\ EnterStop
            /\ UNCHANGED result
       ELSE LET s == Scan("run")
            IN  /\ log' = [log EXCEPT !.startEnd = how, !.runs = s.awaits]
                /\ IF s.err # "ok"
                   THEN /\ pc' = "done"
                        /\ result' = s.err
                        /\ tasks' = Unfinished
                   ELSE /\ pc' = "run_wait"
                        /\ tasks' = [t \in Pending \cup {<<"run", n>> : n \in s.awaits} |->
                                        IF t \in Pending THEN tasks[t] ELSE NewTask]
                        /\ UNCHANGED result
                /\ UNCHANGED stopIdx
    /\ UNCHANGED <<harnessVars, match>>

\* run_until_complete(gather(*run_awaits)) returns, raises the first exception of a
\* run hook, or is interrupted: in each case _run returns and run() enters _on_stop
run_wait_end(how) ==
    /\ pc = "run_wait"
    /\ WaitEnds("run", how)
    /\ log' = [log EXCEPT !.runEnd = how, !.stopEntered = @ + 1]
    /\ EnterStop
    /\ UNCHANGED result
    /\ UNCHANGED <<harnessVars, match>>

\* the outcomes of calling a stop hook: it returns, it raises AttributeError (which
\* the "except AttributeError" around the call swallows), or it raises another error
StopOutcomes == {"ok", "AttributeError", "error"}

\* a mutation: the handler around the call of a stop hook is "except Exception"
CaughtAny(out) == out # "ok"

\* "except AttributeError: pass" around the lookup and the call of the stop hook
Caught(out) == out = "AttributeError"

\* one iteration of the loop of _on_stop, up to the call of the hook
stop_next ==
    /\ pc = "stopping"
    /\ IF stopIdx = 0
       THEN /\ pc' = "done"
            /\ result' = "returned"
            /\ UNCHANGED <<stopIdx, tasks, log>>
       ELSE LET x == exec_order[stopIdx]
            IN  IF x \notin DOMAIN env
                THEN /\ pc' = "done"
                     /\ result' = "KeyError"
                     /\ UNCHANGED <<stopIdx, tasks, log>>
                ELSE IF Hook(x, "stop") = NoHook
                THEN /\ stopIdx' = stopIdx - 1
                     /\ UNCHANGED <<pc, result, tasks, log>>
                ELSE IF Hook(x, "stop") = "async"
                THEN /\ pc' = "stop_wait"
                     /\ tasks' = AddTasks("stop", {x})
                     /\ log' = [log EXCEPT !.stops = Append(@, x)]
                     /\ UNCHANGED <<stopIdx, result>>
                ELSE \E out \in StopOutcomes :
                     /\ log' = [log EXCEPT !.stops = Append(@, x), !.lastStop = out]
                     /\ IF out # "ok" /\ ~Caught(out)
                        THEN /\ pc' = "done"
                             /\ result' = "StopError"
                             /\ UNCHANGED stopIdx
                        ELSE /\ stopIdx' = stopIdx - 1
                             /\ UNCHANGED <<pc, result>>
                     /\ UNCHANGED tasks
    /\ UNCHANGED <<harnessVars, match>>

\* the loop resumes the coroutine of an async stop hook inside
\* run_until_complete(fn()): it suspends again, or it ends with one of StopOutcomes
stop_task_step ==
    /\ pc = "stop_wait"
    /\ LET t == <<"stop", exec_order[stopIdx]>>
       IN  \/ /\ tasks[t].yields < MaxYields
              /\ tasks' = [tasks EXCEPT ![t].yields = @ + 1]
              /\ UNCHANGED <<pc, stopIdx, result, log>>
           \/ \E out \in StopOutcomes :
              /\ tasks' = [u \in DOMAIN tasks \ {t} |-> tasks[u]]
              /\ log' = [log EXCEPT !.lastStop = out]
              /\ IF out # "ok" /\ ~Caught(out)
                 THEN /\ pc' = "done"
                      /\ result' = "StopError"
                      /\ UNCHANGED stopIdx
                 ELSE /\ pc' = "stopping"
                      /\ stopIdx' = stopIdx - 1
                      /\ UNCHANGED result
    /\ UNCHANGED <<harnessVars, match>>

-----------------------------------------------------------------------------
(* The method matchers: func_satisfies of search.py and the comparison of  *)
(* __annotations__ in harness.py                                           *)

\* dict order of a signature: the parameters as declared, then "return"
ParamOrder == <<"x", "y", "return">>

ParamNames == {ParamOrder[i] : i \in DOMAIN ParamOrder}

\* marks a parameter (or the return type) that is not annotated
Absent == "absent"

\* the signature (get_type_hints) with the given annotations
Sig(x, y, r) ==
    LET ann == [x |-> x, y |-> y, return |-> r]
    IN  [p \in {q \in ParamNames : ann[q] # Absent} |-> ann[p]]

\* Types: int, str, the Protocol Q, the class QI that implements Q structurally,
\* and the unions Union[int, str] and Union[Q, int].  __args__ of a union; a type
\* that is no union has no __origin__ (AttributeError), modelled as no members.
UnionArgs(t) ==
    CASE t = "U_int_str" -> {"int", "str"}
      [] t = "U_Q_int" -> {"Q", "int"}
      [] OTHER -> {}

\* impl_type.__origin__ is Union
IsUnion(t) == UnionArgs(t) # {}

\* issubclass(t, Protocol)
IsProtocol(t) == t = "Q"

\* search.isimplementation(cls_return, proto_return) on the types above: the
\* Protocol itself and the class QI have Q's members, int and str have none
ReturnImplements(t, q) == q = "Q" /\ t \in {"Q", "QI"}

\* the signatures of contract methods and of candidate methods
ProtoSigs ==
    {Sig(x, y, r) : x \in {Absent, "int", "str"}, y \in {Absent, "int"},
                    r \in {Absent, "int", "str", "Q"}}

ImplSigs ==
    {Sig(x, y, r) : x \in {Absent, "int", "str", "U_int_str"},
                    y \in {Absent, "int", "U_int_str"},
                    r \in {Absent, "int", "str", "QI", "U_int_str", "U_Q_int"}}

\* The loop of func_satisfies over proto_signature.items(), from the i-th key on:
\* a parameter the candidate does not annotate ends it with False; a union that
\* lacks the contract's type ends it with False, one that has it raises
\* ReturnedUnionType on "return" and is accepted elsewhere; any other type must
\* be equal.  Keys that only the candidate has are never looked at.
RECURSIVE CheckParams(_, _, _)
CheckParams(impl, proto, i) ==
    IF i > Len(ParamOrder) THEN "True"
    ELSE LET param == ParamOrder[i]
         IN  IF param \notin DOMAIN proto THEN CheckParams(impl, proto, i + 1)
             ELSE IF param \notin DOMAIN impl THEN "False"
             ELSE IF IsUnion(impl[param])
             THEN IF proto[param] \notin UnionArgs(impl[param]) THEN "False"
                  ELSE IF param = "return" THEN "ReturnedUnionType"
                  ELSE CheckParams(impl, proto, i + 1)
             ELSE IF proto[param] # impl[param] THEN "False"
             ELSE CheckParams(impl, proto, i + 1)

\* func_satisfies(impl, proto): "True", "False", or the exception raised.
\* issubclass(None, Protocol) raises TypeError when the contract method has no
\* return annotation; with a Protocol as the contract's return type the
\* candidate's return type goes through isimplementation (get_type_hints of a
\* union raises TypeError) and, if it implements the Protocol, counts as equal.
func_satisfies(impl, proto) ==
    IF "return" \notin DOMAIN proto THEN "TypeError"
    ELSE IF IsProtocol(proto["return"]) /\ "return" \in DOMAIN impl
    THEN IF IsUnion(impl["return"]) THEN "TypeError"
         ELSE IF ReturnImplements(impl["return"], proto["return"])
         THEN CheckParams([impl EXCEPT !["return"] = proto["return"]], proto, 1)
         ELSE CheckParams(impl, proto, 1)
    ELSE CheckParams(impl, proto, 1)

\* the method branch of harness.isimplementation: the two __annotations__ dicts
\* must be equal
annotations_equal(impl, proto) == IF proto # impl THEN "False" ELSE "True"

NoSig == [p \in {} |-> Absent]

NoMatch == [impl |-> NoSig, proto |-> NoSig, by |-> "none", out |-> "pending"]

\* func_satisfies is called on the two signatures
call_func_satisfies ==
    /\ match.out = "pending"
    /\ match.impl \in ImplSigs /\ match.proto \in ProtoSigs
    /\ match' = [match EXCEPT !.by = "search",
                              !.out = func_satisfies(match.impl, match.proto)]
    /\ UNCHANGED <<harnessVars, pc, tasks, stopIdx, result, log>>

\* harness.isimplementation compares the two signatures
call_annotations_equal ==
    /\ match.out = "pending"
    /\ match.impl \in ImplSigs /\ match.proto \in ProtoSigs
    /\ match' = [match EXCEPT !.by = "harness",
                              !.out = annotations_equal(match.impl, match.proto)]
    /\ UNCHANGED <<harnessVars, pc, tasks, stopIdx, result, log>>

-----------------------------------------------------------------------------
(* The specification *)

\* a harness as __init__ leaves it, and no run() yet
Fresh ==
    /\ provided = <<>>
    /\ dep_graph = EmptyMap
    /\ env = EmptyMap
    /\ exec_order = <<>>
    /\ nprovided = 0
    /\ ncalls = 0
    /\ last = NoCall
    /\ pc = "idle"
    /\ tasks = NoTasks
    /\ stopIdx = 0
    /\ result = "none"
    /\ log = NoLog

Init == Fresh /\ match = NoMatch

TaskIds == {"start", "run"} \X {NameOrder[i] : i \in DOMAIN NameOrder}

WaitResults == {"ok", "error", "interrupt"}

\* provide calls on an idle harness, then one call of run() and the event loop
Next ==
    \/ Provide
    \/ run_call
    \/ \E t \in TaskIds : task_step(t)
    \/ \E how \in WaitResults : start_wait_end(how)
    \/ \E how \in WaitResults : run_wait_end(how)
    \/ stop_next
    \/ stop_task_step

Spec == Init /\ [][Next]_vars

\* the matchers as pure functions: a candidate and a contract signature are drawn,
\* and one of the two matchers is applied to them
MatchInit ==
    /\ Fresh
    /\ \E impl \in ImplSigs, proto \in ProtoSigs :
          match = [impl |-> impl, proto |-> proto, by |-> "none", out |-> "pending"]

MatchNext == call_func_satisfies \/ call_annotations_equal

MatchSpec == MatchInit /\ [][MatchNext]_vars

TypeOK ==
    /\ pc \in {"idle", "start_wait", "run_wait", "stopping", "stop_wait", "done"}
    /\ Names(provided) \subseteq {NameOrder[i] : i \in DOMAIN NameOrder}
    /\ DOMAIN dep_graph \subseteq Names(provided)
    /\ DOMAIN env \subseteq Names(provided)
    /\ stopIdx \in 0..Len(exec_order)
    /\ match.out \in {"pending", "True", "False", "ReturnedUnionType", "TypeError"}
    /\ log.lastStop \in StopOutcomes \cup {"none"}

-----------------------------------------------------------------------------
(* Properties of the lifecycle *)

Reverse(seq) == [i \in 1..Len(seq) |-> seq[Len(seq) + 1 - i]]

HasStopHook(x) == x \in DOMAIN env /\ Hook(x, "stop") # NoHook

\* the components that declare a stop hook, in the reverse of _exec_order
ExpectedStops == SelectSeq(Reverse(exec_order), HasStopHook)

StopPhase == pc \in {"stopping", "stop_wait"}

\* run() is called on a harness whose last provide call (if any) succeeded
Built == last.err \in {"none", "ok"}

\* C1: whatever happened in the start or run phase of a run() on a built harness,
\* _on_stop has been entered exactly once when run() ends.
C1_StopExactlyOnce == (Built /\ pc = "done") => log.stopEntered = 1

\* C2: the next phase never begins while a task of the current phase is still
\* pending: no start task is pending in the run phase and, when a wait ended with
\* a hook's exception, no sibling start or run task is pending (and so able to run
\* between the stop hooks) in the stop phase.
C2_PhaseBarrier ==
    /\ pc = "run_wait" => \A t \in Pending : t[1] = "run"
    /\ (StopPhase /\ "interrupt" \notin {log.startEnd, log.runEnd}) =>
           \A t \in Pending : t[1] = "stop"

\* C3: when run() ends on a built harness, the stop hooks that were invoked are
\* exactly those of the components that declare one, each once, in the reverse
\* of _exec_order.
C3_StopsInReverseOnce == (Built /\ pc = "done") => log.stops = ExpectedStops

\* C8: the run phase is entered only after a clean start phase: when the wait on
\* the start hooks ended with KeyboardInterrupt or with a hook's exception, no run
\* hook is invoked, no run task exists, and run() is in (or past) _on_stop.
C8_RunOnlyAfterCleanStart ==
    /\ pc = "run_wait" => log.startEnd = "ok"
    /\ log.runs # {} => log.startEnd = "ok"
    /\ log.startEnd \in {"error", "interrupt"} =>
          /\ log.runs = {}
          /\ PhaseTasks("run") = {}
          /\ log.runEnd = "none"
          /\ log.stopEntered = 1
          /\ StopPhase \/ pc = "done"

\* a start phase cut short by KeyboardInterrupt, with a component whose run hook
\* would have been invoked, and run() over after its stop phase
C8_Witness ==
    /\ log.startEnd = "interrupt"
    /\ pc = "done"
    /\ result = "returned"
    /\ \E x \in DOMAIN env : Hook(x, "run") = "async"

\* C9: no lifecycle error of the start or run phase reaches the caller of run():
\* a hook's exception ends the wait and leads into _on_stop, and run() never
\* raises InvalidLifecycleMethod.
C9_LifecycleErrorsCaught ==
    /\ (log.startEnd = "error" \/ log.runEnd = "error") => log.stopEntered = 1
    /\ result # "InvalidLifecycleMethod"

-----------------------------------------------------------------------------
(* Properties of provide *)

\* the names reachable from the names in S along the edges of the graph
Successors(graph, S) == UNION {DepSets(graph)[n] : n \in S \cap DOMAIN graph}

RECURSIVE Closure(_, _)
Closure(graph, S) ==
    LET T == S \cup Successors(graph, S)
    IN  IF T = S THEN S ELSE Closure(graph, T)

\* whether some component depends on itself, directly or through others
Cyclic(graph) == \E n \in DOMAIN graph : n \in Closure(graph, Successors(graph, {n}))

Pos(seq, x) == CHOOSE i \in DOMAIN seq : seq[i] = x

RegisteredClasses == {provided[i].cls : i \in DOMAIN provided}

\* whether the last provide call got as far as building the graph
GraphBuilt == last.err \notin {"none", "NoConstructor", "NoAnnotation", "MissingDependency"}

\* C4: after a successful provide over an acyclic set of definitions, _exec_order
\* lists every registered component once, every dependency before each component
\* that depends on it; A, B(A), C(B) gives exactly A, B, C.
C4_DependenciesFirst ==
    (last.err = "ok" /\ ~Cyclic(dep_graph)) =>
        /\ Len(exec_order) = Len(provided)
        /\ \A n \in Names(provided) : \E i \in DOMAIN exec_order : exec_order[i] = n
        /\ \A c \in DOMAIN dep_graph : \A k \in DOMAIN dep_graph[c] :
              Pos(exec_order, dep_graph[c][k]) < Pos(exec_order, c)
        /\ RegisteredClasses = {"cA", "cB", "cC"} => exec_order = <<"A", "B", "C">>

\* the chain registered depender first: C, then B, then A
C4_Witness ==
    /\ last.err = "ok"
    /\ [i \in DOMAIN provided |-> provided[i].name] = <<"C", "B", "A">>
    /\ exec_order = <<"A", "B", "C">>

\* C5: a provide call whose resolved graph has a cycle (of any length, a component
\* resolved to itself included) fails with CircularDependency and constructs
\* nothing.
C5_CycleFailsCircular ==
    (GraphBuilt /\ Cyclic(dep_graph)) =>
        /\ last.err = "CircularDependency"
        /\ last.built = <<>>

\* whether a registered component has a constructor parameter of a concrete type
\* that no registered definition has
Unregistered(prov) ==
    \E i \in DOMAIN prov : \E j \in DOMAIN Catalogue[prov[i].cls].params :
        LET prm == Catalogue[prov[i].cls].params[j]
        IN  /\ prm.kind = "concrete"
            /\ \A k \in DOMAIN prov : \/ Catalogue[prov[k].cls].module # prm.ty.module
                                      \/ Catalogue[prov[k].cls].name # prm.ty.name

\* C6: a provide call whose arguments are all accepted and which leaves a
\* component requiring an unregistered concrete type fails with MissingDependency;
\* a call failing so instantiates nothing and leaves _env as it was (empty, when
\* nothing was built before).
C6_MissingBeforeInstantiation ==
    [][/\ (/\ ncalls' = ncalls + 1
           /\ last'.err \notin {"NoConstructor", "NoAnnotation"}
           /\ Unregistered(provided')) => last'.err = "MissingDependency"
       /\ (ncalls' = ncalls + 1 /\ last'.err = "MissingDependency") =>
              /\ last'.built = <<>>
              /\ env' = env
              /\ exec_order' = exec_order]_vars

\* the first provide call fails for an unregistered concrete type
C6_Witness ==
    /\ ncalls = 1
    /\ last.err = "MissingDependency"
    /\ Unregistered(provided)
    /\ env = EmptyMap

\* C7: after a failing provide call none of its arguments is in the registry, and
\* the call has written no entry of _dep_graph and no entry of _env.
C7_NothingRetained ==
    last.err \notin {"none", "ok"} =>
        /\ \A i \in DOMAIN last.args : last.args[i] \notin RegisteredClasses
        /\ last.written = {}
        /\ last.built = <<>>

\* the positions of the registry whose class structurally satisfies the protocol
Satisfying(p) ==
    {i \in DOMAIN provided : isimplementation(Catalogue[provided[i].cls], Protocols[p])}

\* C10: every protocol-typed parameter resolved by the last provide call is
\* resolved to the earliest entry of the registry that satisfies the protocol.
C10_EarliestRegistered ==
    \A n \in last.written : \A j \in DOMAIN ClsOf(provided, n).params :
        LET prm == ClsOf(provided, n).params[j]
        IN  prm.kind = "proto" =>
               \E i \in Satisfying(prm.ty) :
                  /\ dep_graph[n][prm.key] = provided[i].name
                  /\ \A k \in Satisfying(prm.ty) : i <= k

\* X needs P, Z and Y both satisfy P, Z was registered before Y: X gets Z
C10_Witness ==
    /\ "X" \in last.written
    /\ {"Y", "Z"} \subseteq Names(provided)
    /\ IndexOf(provided, "Z") < IndexOf(provided, "Y")
    /\ ~isimplementation(ClsOf(provided, "X"), Protocols["P"])
    /\ dep_graph["X"]["p"] = "Z"

-----------------------------------------------------------------------------
(* Properties of the graph and of the environment *)

\* C11: no entry of _dep_graph resolves to itself: there is no component c and
\* parameter p with _dep_graph[c][p] = c.
C11_NoSelfResolution ==
    \A c \in DOMAIN dep_graph : \A p \in DOMAIN dep_graph[c] : dep_graph[c][p] # c

\* whether the scan of the given phase reaches a component whose hook is no
\* coroutine function: every name before it in _exec_order has an instance
ReachesSyncHook(phase) ==
    \E i \in DOMAIN exec_order :
        /\ \A j \in 1..i : exec_order[j] \in DOMAIN env
        /\ Hook(exec_order[i], phase) = "sync"
        /\ \A j \in 1..(i - 1) : Hook(exec_order[j], phase) # "sync"

\* C12: when the scan of _on_start reaches a component whose on_start is not
\* asynchronous, run() ends at once with InvalidLifecycleMethod and the body of no
\* start hook is executed: the coroutines collected from the components scanned
\* before it never become tasks of the loop, nothing is waited on, and no run or
\* stop hook is invoked.
C12_SyncStartAborts ==
    (pc # "idle" /\ ReachesSyncHook("start")) =>
        /\ pc = "done"
        /\ result = "InvalidLifecycleMethod"
        /\ tasks = NoTasks
        /\ log.startEnd = "none"
        /\ log.runs = {}
        /\ log.stops = <<>>

\* a start hook was collected from an earlier component before the scan reached
\* the one whose on_start is a plain method
C12_Witness ==
    /\ pc = "done"
    /\ ReachesSyncHook("start")
    /\ log.starts # {}
    /\ result = "InvalidLifecycleMethod"

-----------------------------------------------------------------------------
(* Properties of the stop phase *)

\* the component whose stop hook ended last: the last one called, or the one
\* before it while the coroutine of the last one is still being waited on
LastStopped ==
    IF pc = "stop_wait" THEN log.stops[Len(log.stops) - 1] ELSE log.stops[Len(log.stops)]

\* C13 as stated: whenever a stop hook raises any error, the error leaves run().
C13_AnyStopErrorPropagates ==
    log.lastStop \in {"error", "AttributeError"} =>
        (pc = "done" /\ result = "StopError")

\* C13, amended: a stop hook that raises an error other than AttributeError ends
\* run() with that error, and no stop hook of a component earlier in _exec_order
\* is called (every hook called so far belongs to a later position, and nothing
\* happens after run() is over); a stop hook that raises AttributeError is treated
\* like a missing hook: the error is swallowed and the loop moves on to the
\* component before it.
C13_StopErrorsAbortTeardown ==
    /\ log.lastStop = "error" =>
          /\ pc = "done"
          /\ result = "StopError"
          /\ stopIdx \in DOMAIN exec_order
          /\ LastStopped = exec_order[stopIdx]
          /\ \A i \in DOMAIN log.stops : Pos(exec_order, log.stops[i]) >= stopIdx
    /\ log.lastStop = "AttributeError" =>
          /\ result # "StopError"
          /\ stopIdx < Pos(exec_order, LastStopped)
    /\ pc = "done" => ~ENABLED Next

\* the second stop hook called raised: the stop hook of the component before it in
\* _exec_order is never called
C13_Witness ==
    /\ log.lastStop = "error"
    /\ result = "StopError"
    /\ Len(log.stops) >= 2
    /\ \E j \in 1..(stopIdx - 1) : HasStopHook(exec_order[j])

-----------------------------------------------------------------------------
(* Properties of components without lifecycle hooks *)

Phases == {"start", "run", "stop"}

\* a constructed component that has none of on_start, run, on_stop
Hookless(x) == x \in DOMAIN env /\ \A ph \in Phases : Hook(x, ph) = NoHook

\* the constructed components whose hook of the given phase is a coroutine function
WithAsyncHook(phase) == {x \in DOMAIN env : Hook(x, phase) = "async"}

Elements(seq) == {seq[i] : i \in DOMAIN seq}

\* C14: a component without lifecycle hooks is ordered and constructed like any
\* other (after a successful provide every registered name is in _exec_order and
\* in _env), but none of its hooks is ever collected, scheduled or called; its
\* missing hooks raise nothing (run() on a built harness ends with an error only
\* through a hook that exists: one that is no coroutine function, or a stop hook
\* that raises); and the hooks invoked are exactly the existing hooks of the other
\* components, the stop hooks in the reverse of _exec_order.
C14_HooklessSkipped ==
    /\ last.err = "ok" =>
          /\ Names(provided) = Elements(exec_order)
          /\ Names(provided) = DOMAIN env
    /\ \A x \in DOMAIN env :
          Hookless(x) =>
              /\ x \notin log.starts \cup log.runs \cup Elements(log.stops)
              /\ \A t \in DOMAIN tasks : t[2] # x
    /\ (Built /\ pc = "done") =>
          /\ result \in {"returned", "StopError", "InvalidLifecycleMethod"}
          /\ result = "InvalidLifecycleMethod" =>
                \E x \in DOMAIN env : "sync" \in {Hook(x, "start"), Hook(x, "run")}
          /\ result = "StopError" => LastStopped \in DOMAIN env /\ ~Hookless(LastStopped)
          /\ result = "returned" =>
                /\ log.starts = WithAsyncHook("start")
                /\ log.startEnd = "ok" => log.runs = WithAsyncHook("run")
                /\ log.stops = ExpectedStops

\* A, B(A) without any hook, C(B): B is constructed and injected into C, and run()
\* calls the hooks of A and C only, the stop hooks as C, A
C14_Witness ==
    /\ last.err = "ok"
    /\ RegisteredClasses = {"cA", "cB2", "cC"}
    /\ Hookless("B")
    /\ env["C"].inj["b"] = Ident(env["B"])
    /\ pc = "done"
    /\ result = "returned"
    /\ log.starts = {"A"}
    /\ log.runs = {"C"}
    /\ log.stops = <<"C", "A">>

-----------------------------------------------------------------------------
(* Properties of the method matchers *)

\* the candidate's return type is a union one of whose members is the return type
\* the contract requires
ReturnUnionCase ==
    /\ "return" \in DOMAIN match.impl
    /\ "return" \in DOMAIN match.proto
    /\ match.proto["return"] \in UnionArgs(match.impl["return"])

\* the candidate's entry for a parameter of the contract is acceptable under the
\* method rule: the same type, or, on a parameter other than "return", a union
\* that contains the contract's type
Acceptable(p) ==
    /\ p \in DOMAIN match.impl
    /\ \/ match.impl[p] = match.proto[p]
       \/ p # "return" /\ match.proto[p] \in UnionArgs(match.impl[p])

\* C15: matching a candidate method whose return type is a union containing the
\* contract's return type ends with ReturnedUnionType (never with a match or a
\* plain non-match), and a union on another parameter that contains the
\* contract's type is accepted: with nothing else differing, the method matches.
C15_UnionRule ==
    match.out # "pending" =>
        /\ ReturnUnionCase => match.out = "ReturnedUnionType"
        /\ (/\ DOMAIN match.impl = DOMAIN match.proto
            /\ "return" \in DOMAIN match.proto
            /\ \A p \in DOMAIN match.proto : Acceptable(p)) => match.out = "True"

\* C16: a candidate method matches only if its parameter-name -> type mapping,
\* return type included, equals the contract's apart from the union exception;
\* a candidate that annotates a parameter the contract does not declare does
\* not match.
C16_ExactEquality ==
    match.out = "True" =>
        /\ DOMAIN match.impl = DOMAIN match.proto
        /\ \A p \in DOMAIN match.proto : Acceptable(p)

-----------------------------------------------------------------------------
(* Properties of the builds *)

\* C17: in a successful build every registered component is constructed exactly
\* once, in the order of _exec_order, and every instance injected into a
\* component was constructed earlier in that same build.
C17_ConstructedOnceInOrder ==
    last.err = "ok" =>
        /\ last.built = exec_order
        /\ Elements(exec_order) = Names(provided)
        /\ \A c \in DOMAIN env : \A p \in DOMAIN env[c].inj :
              /\ env[c].inj[p][2] = env[c].build
              /\ Pos(last.built, dep_graph[c][p]) < Pos(last.built, c)

\* C19: after a successful provide, what was injected into a component for a
\* parameter is the very instance _env holds under the name the graph resolves
\* that parameter to; no component holds an instance of an earlier build.
C19_InjectedIsStored ==
    last.err = "ok" =>
        \A c \in DOMAIN env : \A p \in DOMAIN env[c].inj :
            env[c].inj[p] = Ident(env[dep_graph[c][p]])

\* the class name (__name__) of an argument of provide
ArgName(a) == Catalogue[a].name

\* C18: provide stores each definition under its name whatever was registered
\* under that name before (of the arguments of a call, the last one of a name
\* stays), without raising; and after every successful provide the graph, the
\* order and the environment cover exactly the registered names, everything was
\* written and constructed by this last call, and every instance of _env was
\* constructed by it from the definition the registry holds now.
C18_FullRebuild ==
    /\ last.err \notin {"none", "NoConstructor", "NoAnnotation"} =>
          \A i \in DOMAIN last.args :
              (\A j \in (i + 1)..Len(last.args) : ArgName(last.args[j]) # ArgName(last.args[i]))
                  => /\ ArgName(last.args[i]) \in Names(provided)
                     /\ provided[IndexOf(provided, ArgName(last.args[i]))].cls = last.args[i]
    /\ last.err = "ok" =>
          /\ DOMAIN dep_graph = Names(provided)
          /\ Elements(exec_order) = Names(provided)
          /\ DOMAIN env = Names(provided)
          /\ last.written = Names(provided)
          /\ last.built = exec_order
          /\ \A x \in DOMAIN env :
                /\ env[x].build = ncalls
                /\ env[x].cls = provided[IndexOf(provided, x)].cls

\* Y was registered and built by a first call; the second call passes two
\* definitions named X, the later one stays, and Y is constructed again
C18_Witness ==
    /\ ncalls = 2
    /\ last.err = "ok"
    /\ last.args = <<"cX2", "cX">>
    /\ provided = <<[name |-> "Y", cls |-> "cY"], [name |-> "X", cls |-> "cX"]>>
    /\ env["Y"].build = ncalls
    /\ env["X"] = Instance("cX", ncalls, [p |-> <<"cY", ncalls>>])

\* the errors of provide that are raised before anything of a build is stored
FrameErrors == {"MissingDependency", "CircularDependency"}

\* C20: a provide call that fails with MissingDependency or CircularDependency
\* leaves _exec_order and _env as they were, so after a successful build they
\* stay exactly what that build produced; and no step of run() changes them:
\* a later run() works on those instances.
C20_FailureKeepsBuild ==
    [][/\ (ncalls' = ncalls + 1 /\ last'.err \in FrameErrors) =>
              /\ exec_order' = exec_order
              /\ env' = env
              /\ last'.built = <<>>
       /\ ncalls' = ncalls => (exec_order' = exec_order /\ env' = env)]_vars

\* a first call built the components, a second call failed, and run() then called
\* the hooks of the instances of the first build, up to its return
C20_Witness ==
    /\ ncalls = 2
    /\ last.err \in FrameErrors
    /\ env # EmptyMap
    /\ DOMAIN env = Elements(exec_order)
    /\ \A x \in DOMAIN env : env[x].build = 1
    /\ pc = "done"
    /\ result = "returned"
    /\ log.starts # {}
    /\ log.stops = ExpectedStops
    /\ log.stops # <<>>

====
